---- MODULE Spec2Model ----
(***************************************************************************)
(* Model of pg.py, the Express project generator: the menu loop (main),   *)
(* ExpressProjectGenerator.create_project, create_module and              *)
(* save_ts_files_to_file, acting on a file system and on the process's    *)
(* current working directory.                                             *)
(*                                                                         *)
(* A string is a sequence of one-character strings, a path is a sequence  *)
(* of components (strings), a file's content is the sequence of chunks    *)
(* written to it since it was last truncated.                             *)
(***************************************************************************)
EXTENDS Naturals, Sequences, FiniteSets

VARIABLES
    dirs,      \* the directories that exist (absolute paths)
    files,     \* the regular files that exist: absolute path -> content
    cwd,       \* the process's current working directory (os.getcwd())
    proc,      \* "menu": main's loop is at its prompt; "crashed": an exception
               \* left main; "exited": the loop ended by choice 4
    last,      \* what the last menu action was given, did and printed
    nActions   \* menu actions that touched the file system so far

vars == <<dirs, files, cwd, proc, last, nActions>>

----------------------------------------------------------------------------
(* Bounds *)

\* longest module name typed at the prompt
MaxNameLen == 3
\* file-system menu actions in one behaviour of Spec
MaxActions == 3

----------------------------------------------------------------------------
(* Strings *)

\* the characters a module name is typed from: letters of both cases and a
\* separator
Chars == {"a", "A", "b", "B", "-"}

\* str.lower() on one character
LowerChar(c) ==
    CASE c = "A" -> "a"
      [] c = "B" -> "b"
      [] c = "U" -> "u"
      [] OTHER -> c

\* str.upper() on one character
UpperChar(c) ==
    CASE c = "a" -> "A"
      [] c = "b" -> "B"
      [] c = "u" -> "U"
      [] OTHER -> c

\* module_name.lower(): every character lower-cased
Lower(s) == [i \in 1..Len(s) |-> LowerChar(s[i])]

\* a capitalize() that upper-cases the first character and keeps the rest
CapitalizeKeepTail(s) ==
    IF s = <<>> THEN <<>> ELSE <<UpperChar(s[1])>> \o Tail(s)

\* module_name.capitalize(): the first character upper-cased, every other
\* character lower-cased; "" stays ""
Capitalize(s) ==
    IF s = <<>> THEN <<>> ELSE <<UpperChar(s[1])>> \o Lower(Tail(s))

\* all strings over cs of length at most n
StringsUpTo(cs, n) == UNION {[1..k -> cs] : k \in 0..n}

\* the literal texts of the templates and of the paths
S_get == <<"g","e","t">>
S_s == <<"s">>
S_ById == <<"B","y","I","d">>
S_create == <<"c","r","e","a","t","e">>
S_update == <<"u","p","d","a","t","e">>
S_delete == <<"d","e","l","e","t","e">>
S_Service == <<"S","e","r","v","i","c","e">>
S_Controller == <<"C","o","n","t","r","o","l","l","e","r">>
S_dash_service == <<"-","s","e","r","v","i","c","e">>
S_dash_controller == <<"-","c","o","n","t","r","o","l","l","e","r">>
S_dash_routes == <<"-","r","o","u","t","e","s">>
S_ts == <<".","t","s">>
S_src == <<"s","r","c">>
S_services == <<"s","e","r","v","i","c","e","s">>
S_controllers == <<"c","o","n","t","r","o","l","l","e","r","s">>
S_routes == <<"r","o","u","t","e","s">>
S_middlewares == <<"m","i","d","d","l","e","w","a","r","e","s">>
S_models == <<"m","o","d","e","l","s">>
S_config == <<"c","o","n","f","i","g">>
S_utils == <<"u","t","i","l","s">>
S_prisma == <<"p","r","i","s","m","a">>
S_package_json == <<"p","a","c","k","a","g","e",".","j","s","o","n">>
S_tsconfig_json == <<"t","s","c","o","n","f","i","g",".","j","s","o","n">>
S_schema_prisma == <<"s","c","h","e","m","a",".","p","r","i","s","m","a">>
S_app_ts == <<"a","p","p",".","t","s">>
S_server_ts == <<"s","e","r","v","e","r",".","t","s">>
S_database_ts == <<"d","a","t","a","b","a","s","e",".","t","s">>
S_errorHandler_ts == <<"e","r","r","o","r","H","a","n","d","l","e","r",".","t","s">>
S_env == <<".","e","n","v">>
S_gitignore == <<".","g","i","t","i","g","n","o","r","e">>
S_script == <<"e","x","p","r","e","s","s","_","p","r","o","j","e","c","t","_",
              "g","e","n","e","r","a","t","o","r",".","p","y">>
S_allcodebase == <<"a","l","l","c","o","d","e","b","a","s","e",".","t","x","t">>
S_demo == <<"d","e","m","o">>
S_user == <<"u","s","e","r">>
S_User == <<"U","s","e","r">>
S_work == <<"w","o","r","k">>

\* file.endswith(suffix)
EndsWith(s, suffix) ==
    /\ Len(s) >= Len(suffix)
    /\ SubSeq(s, Len(s) - Len(suffix) + 1, Len(s)) = suffix

----------------------------------------------------------------------------
(* Paths.  A path as the program holds it is [abs, parts]: absolute, or     *)
(* relative to whatever the working directory is when it is used.           *)

AbsPath(parts) == [abs |-> TRUE, parts |-> parts]
RelPath(parts) == [abs |-> FALSE, parts |-> parts]

\* os.path.join(p, c1, ..., cn) with relative components
Join(p, comps) == [abs |-> p.abs, parts |-> p.parts \o comps]

\* the absolute path the operating system resolves p to
Resolve(wd, p) == IF p.abs THEN p.parts ELSE wd \o p.parts

\* os.path.dirname
Parent(a) == IF a = <<>> THEN <<>> ELSE SubSeq(a, 1, Len(a) - 1)

\* a path and all its ancestors
Prefixes(a) == {SubSeq(a, 1, k) : k \in 0..Len(a)}

IsUnder(a, root) == Len(a) >= Len(root) /\ SubSeq(a, 1, Len(root)) = root

----------------------------------------------------------------------------
(* The file system and the primitive operations the program runs on it.    *)
(* fs is [dirs, files, cwd]; an operation is [t, p, c]: its kind, the path  *)
(* it is given and, for a write, the chunk it writes.  inject says that the *)
(* environment makes this operation raise OSError (permissions, disk).      *)

NoChunk == [kind |-> "none"]

MkDirs(p) == [t |-> "makedirs", p |-> p, c |-> NoChunk]
Write(p, c) == [t |-> "write", p |-> p, c |-> c]
ChDir(p) == [t |-> "chdir", p |-> p, c |-> NoChunk]
System == [t |-> "system", p |-> RelPath(<<>>), c |-> NoChunk]

SetFile(fl, a, content) ==
    [q \in DOMAIN fl \cup {a} |-> IF q = a THEN content ELSE fl[q]]

\* os.makedirs(p) without exist_ok: an existing target is an error
MakeDirsStrict(fs, a, inject) ==
    IF inject \/ a \in fs.dirs \/ \E q \in Prefixes(a) : q \in DOMAIN fs.files
    THEN [fs |-> fs, ok |-> FALSE]
    ELSE [fs |-> [fs EXCEPT !.dirs = @ \cup Prefixes(a)], ok |-> TRUE]

\* os.makedirs(p, exist_ok=True): p and its missing ancestors are created;
\* it raises only when a component of p is a regular file
MakeDirs(fs, a, inject) ==
    IF inject \/ \E q \in Prefixes(a) : q \in DOMAIN fs.files
    THEN [fs |-> fs, ok |-> FALSE]
    ELSE [fs |-> [fs EXCEPT !.dirs = @ \cup Prefixes(a)], ok |-> TRUE]

\* open(p, 'a') ... f.write(c): the chunk is added to what the file holds
OpenAppend(fs, a, c, inject) ==
    IF inject \/ Parent(a) \notin fs.dirs \/ a \in fs.dirs
    THEN [fs |-> fs, ok |-> FALSE]
    ELSE [fs |-> [fs EXCEPT !.files =
                     SetFile(@, a, (IF a \in DOMAIN @ THEN @[a] ELSE <<>>) \o <<c>>)],
          ok |-> TRUE]

\* with open(p, 'w') as f: f.write(c): open raises when the parent directory
\* is missing, when p is a directory or when the environment refuses it, and
\* then leaves the file as it was; else the file is truncated and holds c
OpenWrite(fs, a, c, inject) ==
    IF inject \/ Parent(a) \notin fs.dirs \/ a \in fs.dirs
    THEN [fs |-> fs, ok |-> FALSE]
    ELSE [fs |-> [fs EXCEPT !.files = SetFile(@, a, <<c>>)], ok |-> TRUE]

\* os.chdir(p)
ChangeDir(fs, a, inject) ==
    IF inject \/ a \notin fs.dirs
    THEN [fs |-> fs, ok |-> FALSE]
    ELSE [fs |-> [fs EXCEPT !.cwd = a], ok |-> TRUE]

\* one primitive operation; os.system never raises (its status is dropped)
Exec(fs, op, inject) ==
    LET a == Resolve(fs.cwd, op.p) IN
    CASE op.t = "makedirs" -> MakeDirs(fs, a, inject)
      [] op.t = "write" -> OpenWrite(fs, a, op.c, inject)
      [] op.t = "chdir" -> ChangeDir(fs, a, inject)
      [] OTHER -> [fs |-> fs, ok |-> TRUE]

\* the files written so far, with the one op writes when it completes
Written(fs, op, wrote) ==
    IF op.t = "write" THEN Append(wrote, Resolve(fs.cwd, op.p)) ELSE wrote

\* operations i.. of ops, none of which stops the run: an exception is
\* swallowed and the next operation runs all the same
RECURSIVE RunAllFrom(_, _, _, _, _)
RunAllFrom(fs, ops, i, failAt, wrote) ==
    IF i > Len(ops)
    THEN [fs |-> fs, ok |-> failAt = 0, wrote |-> wrote,
          done |-> IF failAt = 0 THEN Len(ops) ELSE failAt - 1]
    ELSE LET r == Exec(fs, ops[i], i = failAt) IN
         IF r.ok THEN RunAllFrom(r.fs, ops, i + 1, failAt, Written(fs, ops[i], wrote))
                 ELSE RunAllFrom(r.fs, ops, i + 1, failAt, wrote)

\* operations i.. of ops, in order; the first exception ends the run (nothing
\* in pg.py catches one).  done counts the operations completed before it,
\* wrote lists the files they wrote.
RECURSIVE RunFrom(_, _, _, _, _)
RunFrom(fs, ops, i, failAt, wrote) ==
    IF i > Len(ops)
    THEN [fs |-> fs, ok |-> TRUE, done |-> Len(ops), wrote |-> wrote]
    ELSE LET r == Exec(fs, ops[i], i = failAt) IN
         IF r.ok THEN RunFrom(r.fs, ops, i + 1, failAt, Written(fs, ops[i], wrote))
                 ELSE [fs |-> r.fs, ok |-> FALSE, done |-> i - 1, wrote |-> wrote]

\* a handler that goes on after an exception
RunIgnoringErrors(fs, ops, failAt) == RunAllFrom(fs, ops, 1, failAt, <<>>)

\* a handler's statements, run from the first; the environment fails
\* operation failAt (0: none)
Run(fs, ops, failAt) == RunFrom(fs, ops, 1, failAt, <<>>)

----------------------------------------------------------------------------
(* The module templates of create_module.  A rendered file is a record of  *)
(* the template's interpolated places; an identifier is the string the     *)
(* f-string builds.                                                         *)

\* the five identifiers get<X>s, get<X><byId>, create<X>, update<X>, delete<X>
CrudNames(x, byId) ==
    [list |-> S_get \o x \o S_s,
     get |-> S_get \o x \o byId,
     create |-> S_create \o x,
     update |-> S_update \o x,
     delete |-> S_delete \o x]

\* service_content: five exported functions on prisma.<lower>
ServiceContent(m) ==
    [kind |-> "service",
     exports |-> CrudNames(Capitalize(m), S_ById),
     model |-> Lower(m),
     local |-> Lower(m),
     notFound |-> Capitalize(m)]

\* controller_content: five exported handlers, each calling <m>Service.<fn>
ControllerContent(m) ==
    [kind |-> "controller",
     alias |-> m \o S_Service,
     importPath |-> <<S_services, Lower(m) \o S_dash_service>>,
     exports |-> CrudNames(Capitalize(m), <<>>),
     calls |-> [k \in {"list", "get", "create", "update", "delete"} |->
                  [obj |-> m \o S_Service,
                   fn |-> CrudNames(Capitalize(m), S_ById)[k]]],
     local |-> m,
     locals |-> m \o S_s,
     notFound |-> Capitalize(m)]

\* a route_content whose handlers are named from the raw module name
RouteContentRawHandlers(m) ==
    [kind |-> "route",
     alias |-> m \o S_Controller,
     importPath |-> <<S_controllers, Lower(m) \o S_dash_controller>>,
     routes |->
       <<[method |-> "get", path |-> "/", obj |-> m \o S_Controller,
          handler |-> CrudNames(m, <<>>).list],
         [method |-> "get", path |-> "/:id", obj |-> m \o S_Controller,
          handler |-> CrudNames(m, <<>>).get],
         [method |-> "post", path |-> "/", obj |-> m \o S_Controller,
          handler |-> CrudNames(m, <<>>).create],
         [method |-> "put", path |-> "/:id", obj |-> m \o S_Controller,
          handler |-> CrudNames(m, <<>>).update],
         [method |-> "delete", path |-> "/:id", obj |-> m \o S_Controller,
          handler |-> CrudNames(m, <<>>).delete]>>]

\* route_content: five routes on <m>Controller.<handler>
RouteContent(m) ==
    [kind |-> "route",
     alias |-> m \o S_Controller,
     importPath |-> <<S_controllers, Lower(m) \o S_dash_controller>>,
     routes |->
       <<[method |-> "get", path |-> "/", obj |-> m \o S_Controller,
          handler |-> CrudNames(Capitalize(m), <<>>).list],
         [method |-> "get", path |-> "/:id", obj |-> m \o S_Controller,
          handler |-> CrudNames(Capitalize(m), <<>>).get],
         [method |-> "post", path |-> "/", obj |-> m \o S_Controller,
          handler |-> CrudNames(Capitalize(m), <<>>).create],
         [method |-> "put", path |-> "/:id", obj |-> m \o S_Controller,
          handler |-> CrudNames(Capitalize(m), <<>>).update],
         [method |-> "delete", path |-> "/:id", obj |-> m \o S_Controller,
          handler |-> CrudNames(Capitalize(m), <<>>).delete]>>]

\* the three target paths of create_module, in the order they are written
ServicePath(p, m) == Join(p, <<S_src, S_services, Lower(m) \o S_dash_service \o S_ts>>)
ControllerPath(p, m) ==
    Join(p, <<S_src, S_controllers, Lower(m) \o S_dash_controller \o S_ts>>)
RoutePath(p, m) == Join(p, <<S_src, S_routes, Lower(m) \o S_dash_routes \o S_ts>>)

\* create_module's file operations: three open(..., 'w') / write pairs, no
\* makedirs before any of them
ModuleOps(p, m) ==
    <<Write(ServicePath(p, m), ServiceContent(m)),
      Write(ControllerPath(p, m), ControllerContent(m)),
      Write(RoutePath(p, m), RouteContent(m))>>

----------------------------------------------------------------------------
(* create_project *)

\* the project-level files, by what their text depends on
PackageJson(name) == [kind |-> "package.json", name |-> name]
EnvFile(url) == [kind |-> ".env", url |-> url]
Fixed(kind) == [kind |-> kind]

\* _create_directory_structure's list, in its order
ProjectDirs(pp) ==
    <<Join(pp, <<S_src>>),
      Join(pp, <<S_src, S_controllers>>),
      Join(pp, <<S_src, S_routes>>),
      Join(pp, <<S_src, S_services>>),
      Join(pp, <<S_src, S_middlewares>>),
      Join(pp, <<S_src, S_models>>),
      Join(pp, <<S_src, S_config>>),
      Join(pp, <<S_src, S_utils>>)>>

\* _create_file(path, content): makedirs of the parent, then the write
CreateFile(pp, comps, c) ==
    <<MkDirs(Join(pp, Parent(comps))), Write(Join(pp, comps), c)>>

\* create_project's file operations, in the order its steps run them:
\* _create_directory_structure, _initialize_npm_project (chdir, then
\* 'package.json' relative to the working directory), _setup_typescript,
\* _setup_prisma, _create_base_files, _install_dependencies,
\* _generate_prisma_client, _copy_script
ProjectOps(pp, name, url) ==
    [i \in 1..8 |-> MkDirs(ProjectDirs(pp)[i])]
    \o <<ChDir(pp), Write(RelPath(<<S_package_json>>), PackageJson(name))>>
    \o <<Write(Join(pp, <<S_tsconfig_json>>), Fixed("tsconfig.json"))>>
    \o <<MkDirs(Join(pp, <<S_prisma>>)),
         Write(Join(pp, <<S_prisma, S_schema_prisma>>), Fixed("schema.prisma"))>>
    \o CreateFile(pp, <<S_src, S_app_ts>>, Fixed("app.ts"))
    \o CreateFile(pp, <<S_src, S_server_ts>>, Fixed("server.ts"))
    \o CreateFile(pp, <<S_src, S_config, S_database_ts>>, Fixed("database.ts"))
    \o CreateFile(pp, <<S_src, S_middlewares, S_errorHandler_ts>>, Fixed("errorHandler.ts"))
    \o CreateFile(pp, <<S_env>>, EnvFile(url))
    \o CreateFile(pp, <<S_gitignore>>, Fixed(".gitignore"))
    \o <<ChDir(pp), System, ChDir(pp), System>>
    \o <<Write(Join(pp, <<S_script>>), Fixed("express_project_generator.py"))>>

----------------------------------------------------------------------------
(* save_ts_files_to_file *)

\* the sections os.walk(src) collects: every *.ts file under <project>/src,
\* with its path relative to the project
TsSections(fs, root) ==
    {[path |-> SubSeq(a, Len(root) + 1, Len(a)), content |-> fs.files[a]] :
        a \in {b \in DOMAIN fs.files :
                 /\ IsUnder(b, root \o <<S_src>>)
                 /\ Len(b) > Len(root) + 1
                 /\ EndsWith(b[Len(b)], S_ts)}}

SaveOps(fs, p) ==
    <<Write(Join(p, <<S_allcodebase>>),
            [kind |-> "allcodebase", sections |-> TsSections(fs, Resolve(fs.cwd, p))])>>

----------------------------------------------------------------------------
(* The process: main's loop.  Each action is one pass of the loop, from the *)
(* choice typed at the prompt to the next prompt or to the end of the       *)
(* process.                                                                  *)

\* the directory the tool is started in
LaunchDir == <<S_work>>

\* what is typed at the prompts
ProjectNames == {S_demo}
DbUrls == {<<"x">>}
ProjectPaths == {RelPath(<<S_demo>>), AbsPath(LaunchDir \o <<S_demo>>)}
ModuleNames == {<<>>, S_user, S_User}
AllModuleNames == StringsUpTo(Chars, MaxNameLen)

FS == [dirs |-> dirs, files |-> files, cwd |-> cwd]

NoAction ==
    [op |-> "none", path |-> RelPath(<<>>), name |-> <<>>, root |-> <<>>,
     ok |-> TRUE, done |-> 0, fail |-> 0, success |-> FALSE,
     wrote |-> <<>>, replaced |-> {}]

\* the operations the environment can make raise: all but os.system
FailPoints(ops) == {0} \cup {i \in 1..Len(ops) : ops[i].t # "system"}

\* the state after a handler ran ops: an exception leaves main (no try in
\* pg.py), the success line is printed after the last operation only.  last
\* records what was typed (path, name), the project root it resolved to, the
\* operation the environment failed (fail, 0 for none), how the handler
\* ended (ok, done, success) and the files it wrote (wrote; replaced are
\* those among them that existed before).
Finish(r, rec) ==
    /\ dirs' = r.fs.dirs
    /\ files' = r.fs.files
    /\ cwd' = r.fs.cwd
    /\ proc' = IF r.ok THEN "menu" ELSE "crashed"
    /\ last' = [rec EXCEPT !.ok = r.ok, !.done = r.done, !.success = r.ok,
                            !.wrote = r.wrote,
                            !.replaced = {r.wrote[k] : k \in 1..Len(r.wrote)}
                                            \cap DOMAIN files]
    /\ nActions' = nActions + 1

\* ExpressProjectGenerator(project_name).create_project()
DoCreateProject(name, url, failAt) ==
    LET pp == AbsPath(cwd \o <<name>>)
        ops == ProjectOps(pp, name, url)
    IN /\ failAt \in FailPoints(ops)
       /\ Finish(Run(FS, ops, failAt),
                 [NoAction EXCEPT !.op = "project", !.path = RelPath(<<name>>),
                                  !.name = name, !.root = pp.parts, !.fail = failAt])

\* create_module(project_path, module_name)
DoCreateModule(p, m, failAt) ==
    LET ops == ModuleOps(p, m)
    IN /\ failAt \in FailPoints(ops)
       /\ Finish(Run(FS, ops, failAt),
                 [NoAction EXCEPT !.op = "module", !.path = p, !.name = m,
                                  !.root = Resolve(cwd, p), !.fail = failAt])

\* save_ts_files_to_file(project_path)
DoSaveTsFiles(p, failAt) ==
    LET ops == SaveOps(FS, p)
    IN /\ failAt \in FailPoints(ops)
       /\ Finish(Run(FS, ops, failAt),
                 [NoAction EXCEPT !.op = "save", !.path = p,
                                  !.root = Resolve(cwd, p), !.fail = failAt])

\* how many operations each handler runs
NumProjectOps == Len(ProjectOps(AbsPath(<<>>), <<>>, <<>>))
NumModuleOps == Len(ModuleOps(AbsPath(<<>>), <<>>))
NumSaveOps == Len(SaveOps(FS, AbsPath(<<>>)))

\* choice '1'
CreateProject ==
    /\ proc = "menu" /\ nActions < MaxActions
    /\ \E name \in ProjectNames, url \in DbUrls, failAt \in 0..NumProjectOps :
          DoCreateProject(name, url, failAt)

\* choice '2'
AddModule ==
    /\ proc = "menu" /\ nActions < MaxActions
    /\ \E p \in ProjectPaths, m \in ModuleNames, failAt \in 0..NumModuleOps :
          DoCreateModule(p, m, failAt)

\* choice '3'
SaveTsFiles ==
    /\ proc = "menu" /\ nActions < MaxActions
    /\ \E p \in ProjectPaths, failAt \in 0..NumSaveOps : DoSaveTsFiles(p, failAt)

\* choice '4'
Exit ==
    /\ proc = "menu"
    /\ proc' = "exited"
    /\ last' = [NoAction EXCEPT !.op = "exit"]
    /\ UNCHANGED <<dirs, files, cwd, nActions>>

\* any other choice
InvalidChoice ==
    /\ proc = "menu"
    /\ last' = [NoAction EXCEPT !.op = "invalid"]
    /\ UNCHANGED <<dirs, files, cwd, proc, nActions>>

\* the tool is started again, in the launch directory, after it ended
Launch ==
    /\ proc # "menu"
    /\ proc' = "menu"
    /\ cwd' = LaunchDir
    /\ last' = NoAction
    /\ UNCHANGED <<dirs, files, nActions>>

Init ==
    /\ dirs = Prefixes(LaunchDir)
    /\ files = <<>>
    /\ cwd = LaunchDir
    /\ proc = "menu"
    /\ last = NoAction
    /\ nActions = 0

Next ==
    \/ CreateProject
    \/ AddModule
    \/ SaveTsFiles
    \/ Exit
    \/ InvalidChoice
    \/ Launch

Spec == Init /\ [][Next]_vars

----------------------------------------------------------------------------
(* Module generation alone, over every module name up to MaxNameLen: the    *)
(* tool is started in the launch directory, where the project demo has      *)
(* been created by an earlier run, and one module is added.                 *)

DemoPath == AbsPath(LaunchDir \o <<S_demo>>)

ScaffoldedFS ==
    Run([dirs |-> Prefixes(LaunchDir), files |-> <<>>, cwd |-> LaunchDir],
        ProjectOps(DemoPath, S_demo, <<"x">>), 0).fs

InitGen ==
    /\ dirs = ScaffoldedFS.dirs
    /\ files = ScaffoldedFS.files
    /\ cwd = LaunchDir
    /\ proc = "menu"
    /\ last = NoAction
    /\ nActions = 0

GenModule ==
    /\ proc = "menu" /\ nActions = 0
    /\ \E m \in AllModuleNames, failAt \in 0..NumModuleOps :
          DoCreateModule(DemoPath, m, failAt)

NextGen == GenModule

SpecGen == InitGen /\ [][NextGen]_vars

----------------------------------------------------------------------------
(* What the claims read off a state *)

\* s without its first Len(pre) and its last Len(suf) characters
Strip(s, pre, suf) == SubSeq(s, Len(pre) + 1, Len(s) - Len(suf))

\* the chunks the last action's k-th written file holds now
WrittenFile(k) == files[last.wrote[k]]

\* the last action was a create_module that wrote its three files
ModuleWritten == last.op = "module" /\ Len(last.wrote) = 3

\* every occurrence of the capitalized form in the three files just written:
\* the stems of the exported, called and routed identifiers and of the
\* not-found messages
CapOccurrences ==
    LET svc == WrittenFile(1)[1]
        ctl == WrittenFile(2)[1]
        rt == WrittenFile(3)[1]
        stems(r, byId) == {Strip(r.list, S_get, S_s), Strip(r.get, S_get, byId),
                           Strip(r.create, S_create, <<>>),
                           Strip(r.update, S_update, <<>>),
                           Strip(r.delete, S_delete, <<>>)}
    IN {svc.notFound, ctl.notFound}
       \cup stems(svc.exports, S_ById)
       \cup stems(ctl.exports, <<>>)
       \cup stems([k \in DOMAIN ctl.calls |-> ctl.calls[k].fn], S_ById)
       \cup stems([list |-> rt.routes[1].handler, get |-> rt.routes[2].handler,
                   create |-> rt.routes[3].handler, update |-> rt.routes[4].handler,
                   delete |-> rt.routes[5].handler], <<>>)

\* every occurrence of the lower form in the three files just written: the
\* file stems, the import paths and the local identifiers
LowerOccurrences ==
    LET svc == WrittenFile(1)[1]
        ctl == WrittenFile(2)[1]
        rt == WrittenFile(3)[1]
        base(k) == last.wrote[k][Len(last.wrote[k])]
    IN {Strip(base(1), <<>>, S_dash_service \o S_ts),
        Strip(base(2), <<>>, S_dash_controller \o S_ts),
        Strip(base(3), <<>>, S_dash_routes \o S_ts),
        svc.model, svc.local,
        Strip(ctl.importPath[2], <<>>, S_dash_service),
        Strip(ctl.alias, <<>>, S_Service),
        ctl.local, Strip(ctl.locals, <<>>, S_s),
        Strip(rt.importPath[2], <<>>, S_dash_controller),
        Strip(rt.alias, <<>>, S_Controller)}
       \cup {Strip(ctl.calls[k].obj, <<>>, S_Service) : k \in DOMAIN ctl.calls}
       \cup {Strip(rt.routes[k].obj, <<>>, S_Controller) : k \in 1..Len(rt.routes)}

\* the three paths the spec names for module n under root
TargetPaths(root, n) ==
    <<root \o <<S_src, S_services, Lower(n) \o S_dash_service \o S_ts>>,
      root \o <<S_src, S_controllers, Lower(n) \o S_dash_controller \o S_ts>>,
      root \o <<S_src, S_routes, Lower(n) \o S_dash_routes \o S_ts>>>>

Range(f) == {f[k] : k \in DOMAIN f}

\* path a exists with the same content before and after the step, or in
\* neither state
Untouched(a) ==
    /\ (a \in DOMAIN files) = (a \in DOMAIN files')
    /\ a \in DOMAIN files => files'[a] = files[a]

\* this step is a menu action of kind op
StepOf(op) == nActions' = nActions + 1 /\ last'.op = op

----------------------------------------------------------------------------
(* C1 *)

\* C1 as amended: for every non-empty module name n, each capitalized form in
\* the generated files has the upper-cased first character of n as its first
\* character and the LOWER-CASED characters of n[1:] as its other characters.
C1_CapitalizedLowersTail ==
    (ModuleWritten /\ last.name # <<>>) =>
        \A c \in CapOccurrences :
            /\ Len(c) = Len(last.name)
            /\ c[1] = UpperChar(last.name[1])
            /\ \A i \in 2..Len(c) : c[i] = LowerChar(last.name[i])

\* a module whose name has an upper-case character after the first was written
C1_Witness ==
    /\ ModuleWritten
    /\ last.name = <<"a", "B", "-">>
    /\ CapOccurrences = {<<"A", "b", "-">>}

\* C1 as stated: for every non-empty module name n, the capitalized form has
\* the upper-cased first character of n first and n[1:] unchanged after it.
C1_AsStated ==
    (ModuleWritten /\ last.name # <<>>) =>
        \A c \in CapOccurrences :
            /\ c # <<>>
            /\ c[1] = UpperChar(last.name[1])
            /\ Tail(c) = Tail(last.name)

(* C2 *)

\* C2: create_module with an empty module name fails before any write: it
\* writes no file and reports no success.
C2_EmptyNameRejected ==
    (last.op = "module" /\ last.name = <<>>) =>
        /\ ~last.ok
        /\ last.wrote = <<>>
        /\ ~last.success

(* C3 *)

\* C3: the three files of one create_module call hold one lower form and one
\* capitalized form of the name: all occurrences of each are the same string.
C3_SingleDerivation ==
    ModuleWritten =>
        /\ Cardinality(LowerOccurrences) = 1
        /\ Cardinality(CapOccurrences) = 1

(* C4 *)

\* C4: a successful create_module(root, name) writes exactly the three files
\* src/services/<lower>-service.ts, src/controllers/<lower>-controller.ts and
\* src/routes/<lower>-routes.ts under root, each then holding exactly what
\* this call rendered (whatever it held before), and changes no other file
\* and no directory.
C4_ThreeFilesReplaced ==
    [][(StepOf("module") /\ last'.success) =>
         LET T == TargetPaths(last'.root, last'.name)
             ops == ModuleOps(last'.path, last'.name)
         IN /\ last'.wrote = T
            /\ \A k \in 1..3 : T[k] \in DOMAIN files' /\ files'[T[k]] = <<ops[k].c>>
            /\ \A a \in (DOMAIN files \cup DOMAIN files') \ Range(T) : Untouched(a)
            /\ dirs' = dirs]_vars

\* a module was generated over the three files of an earlier generation of
\* the same lower name
C4_Witness ==
    /\ last.op = "module" /\ last.success
    /\ last.name = S_User
    /\ last.replaced = Range(TargetPaths(last.root, S_user))
    /\ \A k \in 1..3 : Len(files[TargetPaths(last.root, S_user)[k]]) = 1

(* C5 *)

\* C5: create_module reports success exactly when its three writes (service,
\* controller, route, in this order) all completed; when the k-th write
\* fails no success is reported, the files written before it hold their new
\* content and the files after the k-th are as they were.
C5_SuccessAfterAllWrites ==
    [][StepOf("module") =>
         LET T == TargetPaths(last'.root, last'.name)
             ops == ModuleOps(last'.path, last'.name)
             d == last'.done
         IN /\ last'.success = (d = 3)
            /\ last'.success = last'.ok
            /\ last'.wrote = SubSeq(T, 1, d)
            /\ \A k \in 1..d : T[k] \in DOMAIN files' /\ files'[T[k]] = <<ops[k].c>>
            /\ \A k \in (d + 2)..3 : Untouched(T[k])]_vars

\* the second write failed: the service file is there, the other two are not
C5_Witness ==
    /\ last.op = "module" /\ ~last.ok /\ ~last.success /\ last.done = 1
    /\ TargetPaths(last.root, last.name)[1] \in DOMAIN files
    /\ TargetPaths(last.root, last.name)[2] \notin DOMAIN files
    /\ TargetPaths(last.root, last.name)[3] \notin DOMAIN files

(* C6 *)

\* C6: a failure inside a menu action ends that action only: the process is
\* back at the menu prompt.
C6_FailureReturnsToMenu == ~last.ok => proc = "menu"

(* C7 *)

\* C7: create_module with a non-empty name against an existing project root
\* creates the missing directories of its targets and writes the three
\* files: unless the environment fails an operation, it succeeds.
C7_ModuleCreatesParents ==
    (last.op = "module" /\ last.name # <<>> /\ last.fail = 0 /\ last.root \in dirs) =>
        /\ last.ok
        /\ Range(TargetPaths(last.root, last.name)) \subseteq DOMAIN files

(* C8 *)

\* the paths create_project writes under root
TemplateFiles(root) ==
    {root \o c : c \in {<<S_package_json>>, <<S_tsconfig_json>>,
                        <<S_prisma, S_schema_prisma>>, <<S_src, S_app_ts>>,
                        <<S_src, S_server_ts>>, <<S_src, S_config, S_database_ts>>,
                        <<S_src, S_middlewares, S_errorHandler_ts>>,
                        <<S_env>>, <<S_gitignore>>, <<S_script>>}}

SrcSubdirs(ds, root) ==
    {a \in ds : Len(a) = Len(root) + 2 /\ IsUnder(a, root \o <<S_src>>)}

\* C8: create_project on a project that exists does not fail on the existing
\* directories (it succeeds unless the environment fails an operation),
\* leaves src/ with exactly the seven subdirectories, removes no directory
\* and changes no file outside the fixed set of project-level files.
C8_ScaffoldKeepsOtherFiles ==
    [][StepOf("project") =>
         LET root == last'.root IN
         /\ (last'.fail = 0) => last'.success
         /\ (last'.done >= 8) =>
               SrcSubdirs(dirs', root) =
                  {root \o <<S_src, d>> : d \in {S_controllers, S_routes, S_services,
                                                 S_middlewares, S_models, S_config,
                                                 S_utils}}
         /\ dirs \subseteq dirs'
         /\ \A a \in (DOMAIN files \cup DOMAIN files') \ TemplateFiles(root) :
               Untouched(a)]_vars

\* a project was created a second time over its own files, with the module
\* files generated in between still there
C8_Witness ==
    /\ last.op = "project" /\ last.success
    /\ last.replaced = TemplateFiles(last.root)
    /\ \A k \in 1..3 :
          /\ TargetPaths(last.root, S_user)[k] \in DOMAIN files
          /\ files[TargetPaths(last.root, S_user)[k]] = <<ModuleOps(AbsPath(last.root), S_user)[k].c>>

(* C9 *)

\* C9: the project root an action works on is the one a fresh process started
\* in the launch directory resolves the typed path to.
C9_NoCarriedState ==
    (last.op \in {"project", "module", "save"}) =>
        last.root = Resolve(LaunchDir, last.path)

(* C10 *)

\* C10: for every non-empty module name the controller file exports five
\* handlers and the route file registers GET /, GET /:id, POST /, PUT /:id,
\* DELETE /:id, each on the controller import under the name the controller
\* exports for that operation, and each handler calls, on the service import,
\* a function the service file exports for that operation.
C10_RoutesHandlersServices ==
    (ModuleWritten /\ last.name # <<>>) =>
        LET svc == WrittenFile(1)[1]
            ctl == WrittenFile(2)[1]
            rt == WrittenFile(3)[1]
            opOf == <<"list", "get", "create", "update", "delete">>
            base(k) == last.wrote[k][Len(last.wrote[k])]
        IN /\ DOMAIN ctl.exports = Range(opOf)
           /\ Cardinality({ctl.exports[k] : k \in DOMAIN ctl.exports}) = 5
           /\ Cardinality({svc.exports[k] : k \in DOMAIN svc.exports}) = 5
           /\ [k \in 1..Len(rt.routes) |-> <<rt.routes[k].method, rt.routes[k].path>>]
                = << <<"get", "/">>, <<"get", "/:id">>, <<"post", "/">>,
                     <<"put", "/:id">>, <<"delete", "/:id">> >>
           /\ \A k \in 1..5 : /\ rt.routes[k].obj = rt.alias
                              /\ rt.routes[k].handler = ctl.exports[opOf[k]]
           /\ rt.importPath[2] \o S_ts = base(2)
           /\ \A k \in DOMAIN ctl.calls : /\ ctl.calls[k].obj = ctl.alias
                                          /\ ctl.calls[k].fn = svc.exports[k]
           /\ ctl.importPath[2] \o S_ts = base(1)

\* a module with a mixed-case name and a separator was written
C10_Witness ==
    /\ ModuleWritten /\ last.success
    /\ last.name = <<"b", "-", "A">>
    /\ WrittenFile(3)[1].routes[2].handler = S_get \o <<"B", "-", "a">>

====
